---- MODULE Spec2Model ----
(***************************************************************************)
(* Code Cartographer: the element tree and registry (metamodel), the       *)
(* query engine of AnalysisFacade (load_project, execute_query), and the   *)
(* two-pass construction of AstModelBuilder (hierarchy, relationships).    *)
(*                                                                         *)
(* FQNs are strings, joined with "." exactly as CodeUnit.fqn joins them.   *)
(***************************************************************************)
EXTENDS Integers, Sequences, FiniteSets, TLC

VARIABLES
    model,          \* the Metamodel object under construction (tree, registry, index)
    last_error,     \* the exception raised by the last metamodel operation, or None
    ops,            \* number of metamodel operations performed (bounds the construction)
    facade_model,   \* AnalysisFacade._model: None or the loaded Metamodel
    calls,          \* one execute_query activation per thread: its locals and position
    loads,          \* the outcome of every load_project call so far, in order
    build,          \* the activation of AstModelBuilder.build: its locals and position
    lookup          \* the last get_relationships_for_fqn call: arguments and result

vars == <<model, last_error, ops, facade_model, calls, loads, build, lookup>>

None == "None"

NoModel == [loaded |-> FALSE]      \* AnalysisFacade._model is None

Threads == {1, 2}                  \* callers of the facade

\* No get_relationships_for_fqn call has been made.
NoLookup == [fqn |-> None, direction |-> None, result |-> <<>>]

\* AstModelBuilder.build has not been called.
IdleBuild == [pc |-> "idle"]

(***************************************************************************)
(* Bounds of the model.                                                    *)
(***************************************************************************)
MaxRels == 3        \* length of the relationship index of a queried model
MaxDepth == 2       \* largest query.depth
MaxTreeOps == 4     \* metamodel operations in one construction
MaxLoads == 2       \* load_project calls on one facade
MaxFiles == 2       \* source files of a project handed to the builder

(***************************************************************************)
(* Elements (CodeUnit objects).  An element's name and class are fixed at  *)
(* construction; parent link and children map are mutable state.           *)
(***************************************************************************)
Elems == {"r", "a", "y", "w", "p", "z", "x", "a2", "y2", "w2", "x2", "z2"}

Name(e) ==
    CASE e = "r"  -> "proj"
      [] e = "a"  -> "A"
      [] e = "y"  -> "Y"
      [] e = "w"  -> "W"
      [] e = "p"  -> "P"
      [] e = "z"  -> "Z"
      [] e = "x"  -> "X"
      [] e = "a2" -> "A"
      [] e = "y2" -> "Y"
      [] e = "w2" -> "W"
      [] e = "x2" -> "X"
      [] e = "z2" -> "Z"

Kind(e) ==
    CASE e \in {"r", "p"} -> "PackageUnit"
      [] e \in {"z", "z2"} -> "ModuleUnit"
      [] OTHER            -> "ClassifierUnit"

RelationshipType ==
    {"INHERITANCE", "COMPOSITION", "AGGREGATION", "ASSOCIATION", "DEPENDENCY"}

Relationship(s, t, k) == [source_fqn |-> s, target_fqn |-> t, type |-> k]

\* Metamodel.__init__ before the root is registered: every element fresh.
EmptyModel(root) ==
    [ root_package |-> root,
      parent       |-> [e \in Elems |-> None],
      children     |-> [e \in Elems |-> <<>>],
      registry     |-> <<>>,
      rels         |-> <<>> ]

\* The registry is a dict: a function from its keys to elements.
RegKeys(m) == DOMAIN m.registry

RecursionError == "RecursionError"

\* CodeUnit.fqn: parent.fqn + "." + name, the root's own name when it has no
\* parent.  A parent cycle exhausts the interpreter's stack.
RECURSIVE FqnUp(_, _, _)
FqnUp(m, e, fuel) ==
    IF m.parent[e] = None THEN Name(e)
    ELSE IF fuel = 0 THEN RecursionError
    ELSE LET up == FqnUp(m, m.parent[e], fuel - 1)
         IN  IF up = RecursionError THEN RecursionError
             ELSE up \o "." \o Name(e)

Fqn(m, e) == FqnUp(m, e, Cardinality(Elems))

\* CodeUnit.get_child
HasChildNamed(m, p, n) == \E i \in DOMAIN m.children[p] : Name(m.children[p][i]) = n

\* CodeUnit.add_child: the guard, and the effect when it passes.
AddChildRaises_same_object(m, p, c) == \E i \in DOMAIN m.children[p] : m.children[p][i] = c

AddChildRaises(m, p, c) == HasChildNamed(m, p, Name(c))

AddChild(m, p, c) ==
    IF AddChildRaises(m, p, c) THEN m
    ELSE [m EXCEPT !.parent[c] = p, !.children[p] = Append(@, c)]

\* Metamodel.register_element
RegisterElementRaises_overwrite(m, e) ==
    IF Fqn(m, e) = RecursionError THEN RecursionError ELSE None

RegisterElementRaises(m, e) ==
    IF Fqn(m, e) = RecursionError THEN RecursionError
    ELSE IF Fqn(m, e) \in RegKeys(m) THEN "KeyError"
    ELSE None

RegisterElement(m, e) ==
    IF RegisterElementRaises(m, e) # None THEN m
    ELSE [m EXCEPT !.registry =
            [k \in RegKeys(m) \cup {Fqn(m, e)} |->
                IF k = Fqn(m, e) THEN e ELSE m.registry[k]]]

\* Metamodel.register_relationship
RegisterRelationship(m, rel) == [m EXCEPT !.rels = Append(@, rel)]

\* Metamodel.__init__
NewMetamodel(root) == RegisterElement(EmptyModel(root), root)

\* Metamodel.get_element_by_fqn
GetElementByFqn(m, fqn) == IF fqn \in RegKeys(m) THEN m.registry[fqn] ELSE None

\* Metamodel.get_relationships_for_fqn
RECURSIVE ScanRels_two_ifs(_, _, _, _)
ScanRels_two_ifs(rs, fqn, is_outgoing, is_incoming) ==
    IF rs = <<>> THEN <<>>
    ELSE LET rel  == Head(rs)
             rest == ScanRels_two_ifs(Tail(rs), fqn, is_outgoing, is_incoming)
             out  == IF is_outgoing /\ rel.source_fqn = fqn THEN <<rel>> ELSE <<>>
             inc  == IF is_incoming /\ rel.target_fqn = fqn THEN <<rel>> ELSE <<>>
         IN  out \o inc \o rest

RECURSIVE ScanRels(_, _, _, _)
ScanRels(rs, fqn, is_outgoing, is_incoming) ==
    IF rs = <<>> THEN <<>>
    ELSE LET rel  == Head(rs)
             rest == ScanRels(Tail(rs), fqn, is_outgoing, is_incoming)
         IN  IF is_outgoing /\ rel.source_fqn = fqn THEN <<rel>> \o rest
             ELSE IF is_incoming /\ rel.target_fqn = fqn THEN <<rel>> \o rest
             ELSE rest

GetRelationshipsForFqn(m, fqn, direction) ==
    ScanRels(m.rels, fqn, direction \in {"outgoing", "both"},
                          direction \in {"incoming", "both"})

(***************************************************************************)
(* The query engine: AnalysisFacade.execute_query.                         *)
(*                                                                         *)
(* A Query is [root_fqns, depth, filter_rules]; a filter rule is a dict,   *)
(* modelled as a record whose DOMAIN is the dict's keys.                   *)
(***************************************************************************)
\* AnalysisFacade._is_relationship_filtered
IsRelationshipFiltered_first_rule(rel, query) ==
    /\ query.filter_rules # <<>>
    /\ "exclude_types" \in DOMAIN query.filter_rules[1]
    /\ rel.type \in query.filter_rules[1].exclude_types

IsRelationshipFiltered(rel, query) ==
    \E i \in DOMAIN query.filter_rules :
        /\ "exclude_types" \in DOMAIN query.filter_rules[i]
        /\ rel.type \in query.filter_rules[i].exclude_types

\* AnalysisFacade._serialize_element
SerializeElement(m, element) ==
    [ fqn          |-> Fqn(m, element),
      name         |-> Name(element),
      element_type |-> CASE Kind(element) = "ClassifierUnit" -> "class"
                         [] Kind(element) = "ModuleUnit"     -> "module"
                         [] Kind(element) = "PackageUnit"    -> "package"
                         [] OTHER                            -> "unknown",
      parent_fqn   |-> IF m.parent[element] # None
                       THEN Fqn(m, m.parent[element]) ELSE None ]

\* nodes_to_render[key] = value on an insertion-ordered dict, kept as a
\* sequence of <<key, value>> pairs.
DictKeys(d) == {d[i][1] : i \in DOMAIN d}

DictSet(d, key, value) ==
    IF key \in DictKeys(d)
    THEN [i \in DOMAIN d |-> IF d[i][1] = key THEN <<key, value>> ELSE d[i]]
    ELSE Append(d, <<key, value>>)

\* list(nodes_to_render.values())
DictValues(d) == [i \in DOMAIN d |-> d[i][2]]

\* deque.popleft: the queue that remains
Popleft_peek(queue) == queue

Popleft(queue) == Tail(queue)

\* The test that ends relational exploration at the depth limit.
AtDepthLimit_off_by_one(current_depth, depth) == current_depth > depth

AtDepthLimit_never(current_depth, depth) == FALSE

AtDepthLimit(current_depth, depth) == current_depth >= depth

\* The ViewState dataclass: its declared fields, and its generated __init__,
\* which rejects a keyword that is not a field.
ViewStateFields == {"nodes", "edges"}

NewViewState(kwargs) ==
    IF DOMAIN kwargs \subseteq ViewStateFields
    THEN [raised |-> None, value |-> kwargs]
    ELSE [raised |-> "TypeError", value |-> <<>>]

\* The locals of one execute_query activation.  pc is the position:
\*   idle (not called), loop (at the head of the while loop), rel (before the
\*   relationship lookup of the dequeued element), post (the loop has ended),
\*   done (returned or raised).  The last six fields are history, kept for
\*   the properties only: the model the facade held when the call began, the
\*   number of load_project calls made before it began, whether load_project
\*   replaced the model while the call ran, whether another call ran while
\*   this one did, the <<fqn, depth>> entries taken from the queue so far,
\*   and the FQNs taken from it more than once.
IdleCall ==
    [ pc |-> "idle", query |-> <<>>, queue |-> <<>>, visited |-> {},
      nodes |-> <<>>, edges |-> {}, current |-> <<>>,
      final_nodes |-> <<>>, final_edges |-> <<>>, outcome |-> None,
      start_model |-> NoModel, begun_at |-> 0, swapped |-> FALSE,
      overlapped |-> FALSE, dequeued |-> {}, dequeued_again |-> {} ]

\* if self._model is None
NotLoaded_never(fm) == FALSE

NotLoaded(fm) == fm = NoModel

\* execute_query up to the loop: the loaded check, the queue and the visited set.
BeginCall_first_root(fm, query) ==
    IF NotLoaded(fm)
    THEN [IdleCall EXCEPT !.pc = "done", !.query = query,
                          !.outcome = "ModelStateError"]
    ELSE [IdleCall EXCEPT
            !.pc = "loop", !.query = query, !.start_model = fm,
            !.queue = IF query.root_fqns = <<>> THEN <<>>
                      ELSE << <<query.root_fqns[1], 0>> >>,
            !.visited = {query.root_fqns[i] : i \in DOMAIN query.root_fqns}]

BeginCall(fm, query) ==
    IF NotLoaded(fm)
    THEN [IdleCall EXCEPT !.pc = "done", !.query = query,
                          !.outcome = "ModelStateError"]
    ELSE [IdleCall EXCEPT
            !.pc = "loop", !.query = query, !.start_model = fm,
            !.queue = [i \in DOMAIN query.root_fqns |-> <<query.root_fqns[i], 0>>],
            !.visited = {query.root_fqns[i] : i \in DOMAIN query.root_fqns}]

\* for child in element.children: enqueue the unvisited ones at current_depth
RECURSIVE EnqueueChildren(_, _, _, _)
EnqueueChildren(m, kids, depth, f) ==
    IF kids = <<>> THEN f
    ELSE LET child_fqn == Fqn(m, Head(kids))
             g == IF child_fqn \notin f.visited
                  THEN [f EXCEPT !.visited = @ \cup {child_fqn},
                                 !.queue = Append(@, <<child_fqn, depth>>)]
                  ELSE f
         IN  EnqueueChildren(m, Tail(kids), depth, g)

\* One pass of the while loop up to the depth test: popleft, registry
\* lookup, node record, structural children.
DequeueStep(m, f) ==
    IF m = NoModel THEN [f EXCEPT !.pc = "done", !.outcome = "AttributeError"]
    ELSE IF f.queue = <<>> THEN [f EXCEPT !.pc = "post"]
    ELSE
      LET current_fqn   == Head(f.queue)[1]
          current_depth == Head(f.queue)[2]
          element       == GetElementByFqn(m, current_fqn)
          f1 == [f EXCEPT !.queue = Popleft(f.queue),
                          !.dequeued = @ \cup {<<current_fqn, current_depth>>},
                          !.dequeued_again = @ \cup
                              {q[1] : q \in {d \in f.dequeued : d[1] = current_fqn}}]
      IN  IF element = None THEN f1
          ELSE
            LET f2 == [f1 EXCEPT !.nodes =
                          DictSet(@, current_fqn, SerializeElement(m, element))]
                f3 == IF Kind(element) \in {"PackageUnit", "ModuleUnit"}
                      THEN EnqueueChildren(m, m.children[element], current_depth, f2)
                      ELSE f2
            IN  IF AtDepthLimit(current_depth, f.query.depth) THEN f3
                ELSE [f3 EXCEPT !.pc = "rel",
                                !.current = <<current_fqn, current_depth>>]

\* edge_tuple = (rel.source_fqn, rel.target_fqn, rel.type.name)
EdgeTuple_unordered(rel) ==
    IF rel.source_fqn = rel.target_fqn
       \/ rel.source_fqn = (CHOOSE x \in {rel.source_fqn, rel.target_fqn} : TRUE)
    THEN <<rel.source_fqn, rel.target_fqn, rel.type>>
    ELSE <<rel.target_fqn, rel.source_fqn, rel.type>>

EdgeTuple(rel) == <<rel.source_fqn, rel.target_fqn, rel.type>>

\* for rel in relationships: filter, record the edge, enqueue the other end
\* only when it will itself be expanded
RECURSIVE FollowRelationships_lazy(_, _, _, _)
FollowRelationships_lazy(rs, current_fqn, current_depth, f) ==
    IF rs = <<>> THEN f
    ELSE
      LET rel == Head(rs)
          node_to_visit_next ==
              IF rel.source_fqn = current_fqn THEN rel.target_fqn ELSE rel.source_fqn
          f1 == [f EXCEPT !.edges = @ \cup {EdgeTuple(rel)}]
          f2 == IF node_to_visit_next \notin f1.visited
                   /\ current_depth + 1 < f.query.depth
                THEN [f1 EXCEPT !.visited = @ \cup {node_to_visit_next},
                                !.queue = Append(@, <<node_to_visit_next,
                                                      current_depth + 1>>)]
                ELSE f1
      IN  IF IsRelationshipFiltered(rel, f.query)
          THEN FollowRelationships_lazy(Tail(rs), current_fqn, current_depth, f)
          ELSE FollowRelationships_lazy(Tail(rs), current_fqn, current_depth, f2)

\* for rel in relationships: filter, record the edge, enqueue the other end
RECURSIVE FollowRelationships(_, _, _, _)
FollowRelationships(rs, current_fqn, current_depth, f) ==
    IF rs = <<>> THEN f
    ELSE
      LET rel == Head(rs)
          node_to_visit_next ==
              IF rel.source_fqn = current_fqn THEN rel.target_fqn ELSE rel.source_fqn
          f1 == [f EXCEPT !.edges = @ \cup {EdgeTuple(rel)}]
          f2 == IF node_to_visit_next \notin f1.visited
                THEN [f1 EXCEPT !.visited = @ \cup {node_to_visit_next},
                                !.queue = Append(@, <<node_to_visit_next,
                                                      current_depth + 1>>)]
                ELSE f1
      IN  IF IsRelationshipFiltered(rel, f.query)
          THEN FollowRelationships(Tail(rs), current_fqn, current_depth, f)
          ELSE FollowRelationships(Tail(rs), current_fqn, current_depth, f2)

\* The rest of the pass: the relationships of the dequeued element.
RelationalStep(m, f) ==
    IF m = NoModel THEN [f EXCEPT !.pc = "done", !.outcome = "AttributeError"]
    ELSE [FollowRelationships(
            GetRelationshipsForFqn(m, f.current[1], "both"),
            f.current[1], f.current[2], f)
          EXCEPT !.pc = "loop", !.current = <<>>]

\* The post-pass over edge endpoints.
RECURSIVE AddEndpoints(_, _, _)
AddEndpoints(m, fqns, nodes) ==
    IF fqns = {} THEN nodes
    ELSE LET fqn == CHOOSE x \in fqns : TRUE
             element == GetElementByFqn(m, fqn)
             n1 == IF fqn \notin DictKeys(nodes) /\ element # None
                   THEN DictSet(nodes, fqn, SerializeElement(m, element))
                   ELSE nodes
         IN  AddEndpoints(m, fqns \ {fqn}, n1)

\* [... for source, target, rel_type_name in edges_to_render]: the elements
\* of a set as a list, one entry for each.
RECURSIVE ListOf(_)
ListOf(S) ==
    IF S = {} THEN <<>>
    ELSE LET x == CHOOSE y \in S : TRUE IN <<x>> \o ListOf(S \ {x})

\* After the loop: post-pass, final lists, and the ViewState construction.
FinishStep(m, f) ==
    IF m = NoModel THEN [f EXCEPT !.pc = "done", !.outcome = "AttributeError"]
    ELSE
      LET all_edge_fqns == {e[1] : e \in f.edges} \cup {e[2] : e \in f.edges}
          nodes1        == AddEndpoints(m, all_edge_fqns, f.nodes)
          final_nodes   == DictValues(nodes1)
          edge_list     == ListOf(f.edges)
          final_edges   == [i \in DOMAIN edge_list |->
                               [source_fqn |-> edge_list[i][1],
                                target_fqn |-> edge_list[i][2],
                                relationship_type |-> edge_list[i][3]]]
          view == NewViewState([nodes |-> final_nodes, edges |-> final_edges,
                                root_fqns |-> f.query.root_fqns])
      IN  [f EXCEPT !.pc = "done", !.nodes = nodes1,
                    !.final_nodes = final_nodes, !.final_edges = final_edges,
                    !.outcome = IF view.raised # None THEN view.raised
                                ELSE "returned"]

\* One step of an activation at the model the facade holds at that moment.
StepCall(m, f) ==
    CASE f.pc = "loop" -> DequeueStep(m, f)
      [] f.pc = "rel"  -> RelationalStep(m, f)
      [] f.pc = "post" -> FinishStep(m, f)
      [] OTHER         -> f

\* execute_query run from start to end with nothing else happening.
RECURSIVE RunCall(_, _)
RunCall(m, f) == IF f.pc \in {"done", "idle"} THEN f ELSE RunCall(m, StepCall(m, f))

ExecuteQuery(m, query) == RunCall(m, BeginCall(m, query))

\* What a finished activation hands to ViewState, as sets.
NodeSet(f) == {f.final_nodes[i].fqn : i \in DOMAIN f.final_nodes}
EdgeSet(f) == {f.final_edges[i] : i \in DOMAIN f.final_edges}

(***************************************************************************)
(* Construction of a metamodel through its public operations.              *)
(***************************************************************************)
TreeElems == {"r", "a", "a2", "p"}

TreeRels == { Relationship("proj.A", "proj.P", "ASSOCIATION") }

InitTree ==
    /\ model = NewMetamodel("r")
    /\ last_error = None
    /\ ops = 0
    /\ facade_model = NoModel
    /\ calls = [t \in Threads |-> IdleCall]
    /\ loads = <<>>
    /\ build = IdleBuild
    /\ lookup = NoLookup

DoAddChild(p, c) ==
    /\ ops < MaxTreeOps
    /\ model' = AddChild(model, p, c)
    /\ last_error' = IF AddChildRaises(model, p, c) THEN "ValueError" ELSE None
    /\ ops' = ops + 1
    /\ UNCHANGED <<facade_model, calls, loads, build, lookup>>

DoRegisterElement(e) ==
    /\ ops < MaxTreeOps
    /\ model' = RegisterElement(model, e)
    /\ last_error' = RegisterElementRaises(model, e)
    /\ ops' = ops + 1
    /\ UNCHANGED <<facade_model, calls, loads, build, lookup>>

DoRegisterRelationship(rel) ==
    /\ ops < MaxTreeOps
    /\ model' = RegisterRelationship(model, rel)
    /\ last_error' = None
    /\ ops' = ops + 1
    /\ UNCHANGED <<facade_model, calls, loads, build, lookup>>

NextTree ==
    \/ \E p \in TreeElems, c \in TreeElems : DoAddChild(p, c)
    \/ \E e \in TreeElems : DoRegisterElement(e)
    \/ \E rel \in TreeRels : DoRegisterRelationship(rel)

SpecTree == InitTree /\ [][NextTree]_vars

(***************************************************************************)
(* Lookups in the relationship index: get_relationships_for_fqn on indexes *)
(* that hold self-loops, records in both directions, and duplicates.       *)
(***************************************************************************)
IndexPool ==
    { Relationship("proj.A", "proj.Y", "ASSOCIATION"),
      Relationship("proj.Y", "proj.A", "DEPENDENCY"),
      Relationship("proj.A", "proj.A", "DEPENDENCY"),
      Relationship("proj.Y", "proj.W", "INHERITANCE") }

IndexFqns == {"proj.A", "proj.Y", "proj.G"}

Directions == {"outgoing", "incoming", "both"}

RECURSIVE RegisterAll(_, _)
RegisterAll(m, rs) ==
    IF rs = <<>> THEN m ELSE RegisterAll(RegisterRelationship(m, Head(rs)), Tail(rs))

IndexModels ==
    { RegisterAll(NewMetamodel("r"), rs) :
        rs \in UNION {[1..k -> IndexPool] : k \in 0..MaxRels} }

InitIndex ==
    /\ model \in IndexModels
    /\ last_error = None
    /\ ops = 0
    /\ facade_model = NoModel
    /\ calls = [t \in Threads |-> IdleCall]
    /\ loads = <<>>
    /\ build = IdleBuild
    /\ lookup = NoLookup

GetRelationships(fqn, direction) ==
    /\ lookup' = [fqn |-> fqn, direction |-> direction,
                  result |-> GetRelationshipsForFqn(model, fqn, direction)]
    /\ UNCHANGED <<model, last_error, ops, facade_model, calls, loads, build>>

NextIndex == \E fqn \in IndexFqns, direction \in Directions : GetRelationships(fqn, direction)

SpecIndex == InitIndex /\ [][NextIndex]_vars

(***************************************************************************)
(* Queries against one loaded model, a single caller.                      *)
(***************************************************************************)
\* The element tree of the queried models, built as the builder builds one:
\* add_child, then register_element, parents first.
RECURSIVE Place(_, _)
Place(m, steps) ==
    IF steps = <<>> THEN m
    ELSE Place(RegisterElement(AddChild(m, Head(steps)[1], Head(steps)[2]),
                               Head(steps)[2]),
               Tail(steps))

QueryTree ==
    Place(NewMetamodel("r"),
          << <<"r", "a">>, <<"r", "y">>, <<"r", "w">>, <<"r", "p">>,
             <<"p", "z">>, <<"z", "x">>, <<"x", "a2">> >>)

Ghost == "proj.G"       \* an FQN no element is registered under

\* The records register_relationship is called with.
RelPool ==
    { Relationship("proj.A", "proj.Y", "ASSOCIATION"),
      Relationship("proj.Y", "proj.P.Z.X", "ASSOCIATION"),
      Relationship("proj.P.Z.X", "proj.W", "ASSOCIATION"),
      Relationship("proj.Y", "proj.A", "DEPENDENCY"),
      Relationship("proj.A", Ghost, "ASSOCIATION") }

SeqsUpTo(S, n) == UNION {[1..k -> S] : k \in 0..n}

QueriedModels == {[QueryTree EXCEPT !.rels = rs] : rs \in SeqsUpTo(RelPool, MaxRels)}

RootLists ==
    {<<k>> : k \in RegKeys(QueryTree) \cup {Ghost}}
    \cup {<<>>, <<"proj.A", "proj.P">>, <<"proj.A", "proj.A">>}

FilterLists ==
    { <<>>,
      <<[exclude_types |-> {"DEPENDENCY"}]>>,
      <<[include_types |-> {"DEPENDENCY"}], [exclude_types |-> {"ASSOCIATION"}]>> }

Queries == [root_fqns : RootLists, depth : 0..MaxDepth, filter_rules : FilterLists]

\* The activation record of a caller is its own (the locals of execute_query).
SetCall_shared_visited(cs, t, f) ==
    [u \in DOMAIN cs |->
        IF u = t THEN f
        ELSE IF cs[u].pc \in {"loop", "rel"}
             THEN [cs[u] EXCEPT !.visited = @ \cup f.visited]
             ELSE cs[u]]

SetCall(cs, t, f) == [cs EXCEPT ![t] = f]

InFlight == {"loop", "rel", "post"}

\* History: the step of caller t is taken while another call is in flight.
Observe(t, f) ==
    [f EXCEPT !.overlapped = @ \/ \E u \in Threads \ {t} : calls[u].pc \in InFlight]

Begin(t, Q) ==
    /\ calls[t].pc = "idle"
    /\ \E query \in Q :
          calls' = SetCall(calls, t,
                     [Observe(t, BeginCall(facade_model, query))
                        EXCEPT !.begun_at = Len(loads)])
    /\ UNCHANGED <<model, last_error, ops, facade_model, loads, build, lookup>>

Dequeue(t) ==
    /\ calls[t].pc = "loop"
    /\ calls' = SetCall(calls, t, Observe(t, DequeueStep(facade_model, calls[t])))
    /\ UNCHANGED <<model, last_error, ops, facade_model, loads, build, lookup>>

Relational(t) ==
    /\ calls[t].pc = "rel"
    /\ calls' = SetCall(calls, t, Observe(t, RelationalStep(facade_model, calls[t])))
    /\ UNCHANGED <<model, last_error, ops, facade_model, loads, build, lookup>>

Finish(t) ==
    /\ calls[t].pc = "post"
    /\ calls' = SetCall(calls, t, Observe(t, FinishStep(facade_model, calls[t])))
    /\ UNCHANGED <<model, last_error, ops, facade_model, loads, build, lookup>>

\* A facade on which load_project has succeeded with model m.
Loaded(m) ==
    /\ model = NoModel
    /\ last_error = None
    /\ ops = 0
    /\ facade_model = m
    /\ calls = [t \in Threads |-> IdleCall]
    /\ loads = <<[raised |-> None, value |-> m]>>
    /\ build = IdleBuild
    /\ lookup = NoLookup

InitQuery == \E m \in QueriedModels : Loaded(m)

NextQuery ==
    \/ Begin(1, Queries)
    \/ Dequeue(1)
    \/ Relational(1)
    \/ Finish(1)

SpecQuery == InitQuery /\ [][NextQuery]_vars

(***************************************************************************)
(* Queries against models whose relationship index holds cycles: records   *)
(* in both directions between one pair, a self-loop, a cycle of three.     *)
(***************************************************************************)
CyclePool ==
    { Relationship("proj.A", "proj.Y", "ASSOCIATION"),
      Relationship("proj.Y", "proj.A", "DEPENDENCY"),
      Relationship("proj.W", "proj.W", "DEPENDENCY"),
      Relationship("proj.Y", "proj.P.Z.X", "ASSOCIATION"),
      Relationship("proj.P.Z.X", "proj.A", "ASSOCIATION") }

CyclicModels == {[QueryTree EXCEPT !.rels = rs] : rs \in SeqsUpTo(CyclePool, MaxRels)}

CycleQueries ==
    [ root_fqns : {<<"proj.A">>, <<"proj">>, <<"proj.Y", "proj.P">>},
      depth : 0..MaxDepth,
      filter_rules : {<<>>} ]

InitCycles == \E m \in CyclicModels : Loaded(m)

NextCycles ==
    \/ Begin(1, CycleQueries)
    \/ Dequeue(1)
    \/ Relational(1)
    \/ Finish(1)

\* The caller's thread keeps running until its call ends.
SpecCyclesFair == InitCycles /\ [][NextCycles]_vars /\ WF_vars(NextCycles)

(***************************************************************************)
(* Concurrent callers of execute_query on one loaded model, no reload.     *)
(***************************************************************************)
ChainModel ==
    [QueryTree EXCEPT !.rels =
        << Relationship("proj.A", "proj.Y", "ASSOCIATION"),
           Relationship("proj.Y", "proj.P.Z.X", "ASSOCIATION"),
           Relationship("proj.P.Z.X", "proj.W", "DEPENDENCY") >>]

PairModel ==
    [QueryTree EXCEPT !.rels =
        << Relationship("proj.A", "proj.Y", "ASSOCIATION"),
           Relationship("proj.Y", "proj.A", "DEPENDENCY") >>]

ConcurrentModels == {ChainModel, PairModel}

ConcurrentQueries ==
    [ root_fqns : {<<"proj.A">>, <<"proj.Y", "proj.P">>},
      depth : 0..MaxDepth,
      filter_rules : {<<>>} ]

InitConcurrent == \E m \in ConcurrentModels : Loaded(m)

NextConcurrent ==
    \E t \in Threads :
        \/ Begin(t, ConcurrentQueries)
        \/ Dequeue(t)
        \/ Relational(t)
        \/ Finish(t)

SpecConcurrent == InitConcurrent /\ [][NextConcurrent]_vars

(***************************************************************************)
(* The facade: load_project and execute_query, from construction on.       *)
(***************************************************************************)
\* A second project: another tree, another index.
OtherModel ==
    [Place(NewMetamodel("r"), << <<"r", "a">>, <<"r", "w">> >>)
        EXCEPT !.rels = << Relationship("proj.W", "proj.A", "INHERITANCE") >>]

\* The root paths load_project is called with: what is_dir answers, and the
\* model the builder's passes produce from the sources found there.
RootPaths ==
    { [is_dir |-> TRUE,  project |-> ChainModel],
      [is_dir |-> TRUE,  project |-> OtherModel],
      [is_dir |-> FALSE, project |-> NoModel] }

\* AstModelBuilder.build
Build(root_path) ==
    IF ~root_path.is_dir
    THEN [raised |-> "SourceNotFoundError", value |-> NoModel]
    ELSE [raised |-> None, value |-> root_path.project]

\* AnalysisFacade.load_project: the value of self._model after the call.
LoadProjectModel_reset(fm, built) ==
    IF built.raised # None THEN NoModel ELSE built.value

LoadProjectModel(fm, built) ==
    IF built.raised # None THEN fm ELSE built.value

FacadeQueries ==
    [ root_fqns : {<<"proj.A">>, <<"proj.W", "proj.P">>},
      depth : 1..MaxDepth,
      filter_rules : {<<>>} ]

InitFacade ==
    /\ model = NoModel
    /\ last_error = None
    /\ ops = 0
    /\ facade_model = NoModel
    /\ calls = [t \in Threads |-> IdleCall]
    /\ loads = <<>>
    /\ build = IdleBuild
    /\ lookup = NoLookup

LoadProject(root_path) ==
    /\ Len(loads) < MaxLoads
    /\ LET built == Build(root_path)
       IN  /\ facade_model' = LoadProjectModel(facade_model, built)
           /\ loads' = Append(loads, built)
           /\ calls' = [t \in Threads |->
                  IF calls[t].pc \in InFlight /\ built.raised = None
                  THEN [calls[t] EXCEPT !.swapped = TRUE]
                  ELSE calls[t]]
    /\ UNCHANGED <<model, last_error, ops, build, lookup>>

NextFacade ==
    \/ \E root_path \in RootPaths : LoadProject(root_path)
    \/ Begin(1, FacadeQueries)
    \/ Dequeue(1)
    \/ Relational(1)
    \/ Finish(1)

Spec == InitFacade /\ [][NextFacade]_vars

(***************************************************************************)
(* Construction: AstModelBuilder.build and its two visitors.               *)
(*                                                                         *)
(* A source file is [path, parses, body]: path is the sequence of the      *)
(* parts of its path relative to the root, body the statements of its      *)
(* syntax tree.  A dotted name (a.b.C) is the sequence of its segments.    *)
(* Statements:                                                             *)
(*   [node |-> "ClassDef", name, bases, body]                              *)
(*   [node |-> "FunctionDef", name, args, body]   args: [arg, annotation]  *)
(*   [node |-> "Assign", func]                    self.attr = func()       *)
(*   [node |-> "Import", names]                   names: [name, asname]    *)
(*   [node |-> "ImportFrom", module, level, names]                         *)
(* An absent annotation or module is the empty sequence.                   *)
(***************************************************************************)
\* ".".join(parts)
RECURSIVE Join(_)
Join(parts) ==
    IF parts = <<>> THEN ""
    ELSE IF Len(parts) = 1 THEN parts[1]
    ELSE parts[1] \o "." \o Join(Tail(parts))

\* Path.stem of the file names of the projects below.
Stem(filename) ==
    CASE filename = "Z.py"        -> "Z"
      [] filename = "__init__.py" -> "__init__"

\* parts[-1].replace(".py", "")
ReplacePy(filename) ==
    CASE filename = "Z.py"        -> "Z"
      [] filename = "__init__.py" -> "__init__"

\* fqn.split('.') of an element: the names on its parent chain, root first
\* (no name of the pool holds a dot).
RECURSIVE SplitFqn(_, _)
SplitFqn(m, e) ==
    IF m.parent[e] = None THEN <<Name(e)>>
    ELSE Append(SplitFqn(m, m.parent[e]), Name(e))

\* AstModelBuilder._path_to_fqn
PathToFqn(relative_path) ==
    LET last == relative_path[Len(relative_path)]
        init == SubSeq(relative_path, 1, Len(relative_path) - 1)
    IN  IF last = "__init__.py" THEN Join(init)
        ELSE Join(Append(init, ReplacePy(last)))

\* PackageUnit(name), ModuleUnit(name), ClassifierUnit(name): a new object.
NewUnit(created, kind, name) ==
    CHOOSE e \in Elems \ created : Kind(e) = kind /\ Name(e) = name

\* CodeUnit.get_child
GetChild(m, p, n) ==
    IF HasChildNamed(m, p, n)
    THEN m.children[p][CHOOSE i \in DOMAIN m.children[p] : Name(m.children[p][i]) = n]
    ELSE None

\* parent.add_child(unit); model.register_element(unit), on the state of a
\* construction st = [m, created, base_classes, raised].
AddAndRegister(st, parent, unit) ==
    LET st1 == [st EXCEPT !.created = @ \cup {unit}]
    IN  IF AddChildRaises(st.m, parent, unit)
        THEN [st1 EXCEPT !.raised = "ValueError"]
        ELSE LET m1 == AddChild(st.m, parent, unit)
             IN  IF RegisterElementRaises(m1, unit) # None
                 THEN [st1 EXCEPT !.m = m1, !.raised = RegisterElementRaises(m1, unit)]
                 ELSE [st1 EXCEPT !.m = RegisterElement(m1, unit)]

\* AstModelBuilder._ensure_module_structure: the intermediate packages
RECURSIVE EnsurePackages(_, _, _)
EnsurePackages(st, current_parent, parts) ==
    IF parts = <<>> \/ st.raised # None
    THEN [st |-> st, unit |-> current_parent]
    ELSE LET child == GetChild(st.m, current_parent, Head(parts))
         IN  IF child = None
             THEN LET new_package == NewUnit(st.created, "PackageUnit", Head(parts))
                  IN  EnsurePackages(AddAndRegister(st, current_parent, new_package),
                                     new_package, Tail(parts))
             ELSE EnsurePackages(st, child, Tail(parts))

\* AstModelBuilder._ensure_module_structure
EnsureModuleStructure(st, relative_path) ==
    LET filename == relative_path[Len(relative_path)]
        above == EnsurePackages(st, st.m.root_package,
                                SubSeq(relative_path, 1, Len(relative_path) - 1))
    IN  IF above.st.raised # None \/ filename = "__init__.py" THEN above
        ELSE LET found == GetChild(above.st.m, above.unit, Stem(filename))
             IN  IF found # None THEN [st |-> above.st, unit |-> found]
                 ELSE LET module_unit == NewUnit(above.st.created, "ModuleUnit",
                                                 Stem(filename))
                      IN  [st   |-> AddAndRegister(above.st, above.unit, module_unit),
                           unit |-> module_unit]

\* HierarchicalVisitor: visit_ClassDef on every type definition met in the
\* walk of the statements, generic_visit elsewhere.
RECURSIVE HierarchyVisit(_, _, _)
HierarchyVisit(st, current_module, stmts) ==
    IF stmts = <<>> \/ st.raised # None THEN st
    ELSE
      LET node == Head(stmts)
          after ==
            CASE node.node = "ClassDef" ->
                   LET classifier == NewUnit(st.created, "ClassifierUnit", node.name)
                       st1 == AddAndRegister(st, current_module, classifier)
                       st2 == [st1 EXCEPT !.base_classes[classifier] =
                                  [i \in DOMAIN node.bases |->
                                      node.bases[i][Len(node.bases[i])]]]
                   IN  IF st1.raised # None THEN st1
                       ELSE HierarchyVisit(st2, current_module, node.body)
              [] node.node = "FunctionDef" ->
                   HierarchyVisit(st, current_module, node.body)
              [] OTHER -> st
      IN  HierarchyVisit(after, current_module, Tail(stmts))

\* The attributes a Metamodel object has.
MetamodelAttributes ==
    { "root_package", "_fqn_registry", "_relationship_registry",
      "register_element", "register_relationship", "get_element_by_fqn",
      "get_relationships_for_fqn" }

\* self._imports[key] = value
DictPut(d, key, value) ==
    [k \in DOMAIN d \cup {key} |-> IF k = key THEN value ELSE d[k]]

\* The state of a RelationshipVisitor during the walk of one file:
\* v = [m, base_classes, imports, current_module, current_classifier,
\*      raised, raised_on, trace, enclosing, contexts].  The last three are
\* history: every resolution attempted, with the alias table at that moment
\* and its outcome; the names of the type definitions whose body the walk is
\* in, outermost first; and, for every method definition and assignment
\* visited inside a type definition, the current classifier at that moment.
\* RelationshipVisitor._resolve_name_to_fqn
ResolveNameToFqn(v, name) ==
    LET project_name == Name(v.m.root_package)
        text == Join(name)
        first == IF text \in DOMAIN v.imports
                 THEN project_name \o "." \o v.imports[text] ELSE None
        second == IF Len(name) > 1 /\ name[1] \in DOMAIN v.imports
                  THEN project_name \o "." \o v.imports[name[1]] \o "."
                           \o Join(Tail(name))
                  ELSE None
        third == IF Len(name) > 1 THEN project_name \o "." \o text ELSE None
        potential_fqn == Fqn(v.m, v.current_module) \o "." \o text
    IN  IF first # None /\ GetElementByFqn(v.m, first) # None THEN first
        ELSE IF second # None /\ GetElementByFqn(v.m, second) # None THEN second
        ELSE IF third # None /\ GetElementByFqn(v.m, third) # None THEN third
        ELSE IF GetElementByFqn(v.m, potential_fqn) # None THEN potential_fqn
        ELSE None

\* Resolve a name and, when it resolves to a registered element, register
\* the relationship from the current classifier.
ResolveAndRegister(v, kind, name, type) ==
    LET resolved_fqn == ResolveNameToFqn(v, name)
        v1 == [v EXCEPT !.trace = Append(@,
                  [kind |-> kind, name |-> name, resolved_fqn |-> resolved_fqn,
                   file |-> Fqn(v.m, v.current_module), imports |-> v.imports])]
    IN  IF resolved_fqn # None /\ GetElementByFqn(v.m, resolved_fqn) # None
        THEN [v1 EXCEPT !.m = RegisterRelationship(@,
                 Relationship(Fqn(v.m, v.current_classifier), resolved_fqn, type))]
        ELSE v1

\* visit_ClassDef: for base_name in classifier.base_classes
RECURSIVE Inheritance(_, _)
Inheritance(v, base_classes) ==
    IF base_classes = <<>> THEN v
    ELSE Inheritance(ResolveAndRegister(v, "base", <<Head(base_classes)>>, "INHERITANCE"),
                     Tail(base_classes))

\* visit_FunctionDef, pass 1: the parameters with a resolvable type hint.
\* The result is [v, handled_args].
RECURSIVE TypeHints(_, _, _)
TypeHints(v, args, handled_args) ==
    IF args = <<>> THEN [v |-> v, handled_args |-> handled_args]
    ELSE LET arg == Head(args)
         IN  IF arg.arg = "self" \/ arg.annotation = <<>>
             THEN TypeHints(v, Tail(args), handled_args)
             ELSE LET v1 == ResolveAndRegister(v, "annotation", arg.annotation,
                                               "COMPOSITION")
                  IN  IF Len(v1.m.rels) > Len(v.m.rels)
                      THEN TypeHints(v1, Tail(args), handled_args \cup {arg.arg})
                      ELSE TypeHints(v1, Tail(args), handled_args)

\* _snake_to_pascal on the parameter names of the projects below:
\* replace('_', ' '), title(), replace(' ', '').
SnakeToPascal(snake_case) ==
    CASE snake_case = "y"    -> "Y"
      [] snake_case = "g"    -> "G"
      [] snake_case = "self" -> "Self"

\* visit_FunctionDef, pass 2: the name heuristic for the other parameters.
\* Its search reads self._model.registry.
RECURSIVE Heuristics(_, _, _)
Heuristics(v, args, handled_args) ==
    IF args = <<>> THEN v
    ELSE IF Head(args).arg \in {"self"} \cup handled_args
    THEN Heuristics(v, Tail(args), handled_args)
    ELSE IF "registry" \notin MetamodelAttributes
    THEN [v EXCEPT !.raised = "AttributeError",
                   !.raised_on = [arg |-> Head(args).arg,
                                  annotation |-> Head(args).annotation,
                                  inferred_class_name |-> SnakeToPascal(Head(args).arg),
                                  owner |-> Fqn(v.m, v.current_classifier)]]
    ELSE Heuristics(v, Tail(args), handled_args)

\* visit_ImportFrom: the alias entries of one statement
RECURSIVE ImportNames(_, _, _)
ImportNames(imports, base_module, names) ==
    IF names = <<>> THEN imports
    ELSE LET alias == Head(names)
             key == IF alias.asname # None THEN alias.asname ELSE alias.name
             value == IF base_module # "" THEN base_module \o "." \o alias.name
                      ELSE alias.name
         IN  ImportNames(DictPut(imports, key, value), base_module, Tail(names))

\* History: a method definition or an assignment is visited.
Visited(v, node) ==
    IF v.enclosing = <<>> THEN v
    ELSE [v EXCEPT !.contexts = Append(@,
             [node |-> node.node,
              innermost |-> v.enclosing[Len(v.enclosing)],
              current_classifier |->
                  IF v.current_classifier = None THEN None
                  ELSE Name(v.current_classifier)])]

\* RelationshipVisitor: the walk of a list of statements.
RECURSIVE RelationshipVisit(_, _)
RelationshipVisit(v, stmts) ==
    IF stmts = <<>> \/ v.raised # None THEN v
    ELSE
      LET node == Head(stmts)
          after ==
            CASE node.node = "Import" ->
                   [v EXCEPT !.imports = ImportNames(@, "", node.names)]
              [] node.node = "ImportFrom" ->
                   LET path_parts == SplitFqn(v.m, v.current_module)
                       project_relative_parts == Tail(path_parts)
                       keep == IF Len(project_relative_parts) > node.level
                               THEN Len(project_relative_parts) - node.level ELSE 0
                       relative == IF node.level > 0
                                   THEN Join(SubSeq(project_relative_parts, 1, keep))
                                   ELSE ""
                       base_module ==
                           IF node.module = <<>> THEN relative
                           ELSE IF relative # "" THEN relative \o "." \o Join(node.module)
                           ELSE Join(node.module)
                   IN  [v EXCEPT !.imports = ImportNames(@, base_module, node.names)]
              [] node.node = "ClassDef" ->
                   LET classifier == GetElementByFqn(v.m,
                           Fqn(v.m, v.current_module) \o "." \o node.name)
                   IN  IF classifier = None THEN v
                       ELSE LET v1 == [v EXCEPT !.current_classifier = classifier,
                                                !.enclosing = Append(@, node.name)]
                                v2 == Inheritance(v1, v.base_classes[classifier])
                                v3 == RelationshipVisit(v2, node.body)
                            IN  IF v3.raised # None THEN v3
                                ELSE [v3 EXCEPT !.current_classifier = None,
                                                !.enclosing = v.enclosing]
              [] node.node = "FunctionDef" ->
                   LET u == Visited(v, node)
                   IN  IF node.name # "__init__" \/ v.current_classifier = None
                       THEN RelationshipVisit(u, node.body)
                       ELSE LET hinted == TypeHints(u, node.args, {})
                                v2 == Heuristics(hinted.v, node.args, hinted.handled_args)
                            IN  RelationshipVisit(v2, node.body)
              [] node.node = "Assign" ->
                   LET u == Visited(v, node)
                   IN  IF v.current_classifier = None \/ node.func = <<>> THEN u
                       ELSE ResolveAndRegister(u, "call", node.func, "COMPOSITION")
              [] OTHER -> v
      IN  RelationshipVisit(after, Tail(stmts))

\* RelationshipVisitor.visit_module
VisitModule(m, base_classes, module_unit, tree, trace, contexts) ==
    RelationshipVisit(
        [ m |-> m, base_classes |-> base_classes, imports |-> <<>>,
          current_module |-> module_unit, current_classifier |-> None,
          raised |-> None, raised_on |-> <<>>, trace |-> trace,
          enclosing |-> <<>>, contexts |-> contexts ],
        tree)

\* The syntax trees of the projects.
ClassDef(name, bases, body) ==
    [node |-> "ClassDef", name |-> name, bases |-> bases, body |-> body]

FunctionDef(name, args, body) ==
    [node |-> "FunctionDef", name |-> name, args |-> args, body |-> body]

Arg(arg, annotation) == [arg |-> arg, annotation |-> annotation]

Assign(func) == [node |-> "Assign", func |-> func]

ImportFrom(module, level, names) ==
    [node |-> "ImportFrom", module |-> module, level |-> level, names |-> names]

Import(names) == [node |-> "Import", names |-> names]

SourceFile(path, body) == [path |-> path, parses |-> TRUE, body |-> body]

\* P/Z.py in several versions.
ModulePZ ==
    { \* class X:  class A: pass
      << ClassDef("X", <<>>, << ClassDef("A", <<>>, <<>>) >>) >>,
      \* class X:  class A: pass      and, at top level, class A: pass
      << ClassDef("X", <<>>, << ClassDef("A", <<>>, <<>>) >>),
         ClassDef("A", <<>>, <<>>) >>,
      \* class A(G, Y): pass    class Y(pkg.A): pass
      << ClassDef("A", << <<"G">>, <<"Y">> >>, <<>>),
         ClassDef("Y", << <<"pkg", "A">> >>, <<>>) >>,
      \* class W: pass    class X:  def f(self): self.g = G(); self.w = W()
      << ClassDef("W", <<>>, <<>>),
         ClassDef("X", <<>>,
            << FunctionDef("f", << Arg("self", <<>>) >>,
                  << Assign(<<"G">>), Assign(<<"W">>) >>) >>) >>,
      \* class Y: pass    class X:  def __init__(self, y: Y): self.y = y
      << ClassDef("Y", <<>>, <<>>),
         ClassDef("X", <<>>,
            << FunctionDef("__init__",
                  << Arg("self", <<>>), Arg("y", <<"Y">>) >>, <<>>) >>) >>,
      \* class Y: pass    class X:  def __init__(self, y: Y, g: G): pass
      << ClassDef("Y", <<>>, <<>>),
         ClassDef("X", <<>>,
            << FunctionDef("__init__",
                  << Arg("self", <<>>), Arg("y", <<"Y">>), Arg("g", <<"G">>) >>,
                  <<>>) >>) >>,
      \* class Y: pass    class X:  def __init__(self, y): self.y = y
      << ClassDef("Y", <<>>, <<>>),
         ClassDef("X", <<>>,
            << FunctionDef("__init__",
                  << Arg("self", <<>>), Arg("y", <<>>) >>, <<>>) >>) >>,
      \* class Y: pass    class X:  class A: pass
      \*                            def __init__(self, y: Y): pass
      << ClassDef("Y", <<>>, <<>>),
         ClassDef("X", <<>>,
            << ClassDef("A", <<>>, <<>>),
               FunctionDef("__init__",
                  << Arg("self", <<>>), Arg("y", <<"Y">>) >>, <<>>) >>) >> }

SourceFiles ==
    { SourceFile(<<"P", "Z.py">>, body) : body \in ModulePZ }
    \cup
    { \* __init__.py:  from P.Z import X     class W(X): pass
      SourceFile(<<"__init__.py">>,
         << ImportFrom(<<"P", "Z">>, 0, << [name |-> "X", asname |-> None] >>),
            ClassDef("W", << <<"X">> >>, <<>>) >>),
      \* __init__.py:  class W(X): pass     from P.Z import X
      SourceFile(<<"__init__.py">>,
         << ClassDef("W", << <<"X">> >>, <<>>),
            ImportFrom(<<"P", "Z">>, 0, << [name |-> "X", asname |-> None] >>) >>),
      \* P/__init__.py:  class Y:  def g(self): self.x = Z.X()
      SourceFile(<<"P", "__init__.py">>,
         << ClassDef("Y", <<>>,
               << FunctionDef("g", << Arg("self", <<>>) >>,
                     << Assign(<<"Z", "X">>) >>) >>) >>),
      \* Z.py:  import P.Z as pz      class X(pz.Y): pass
      SourceFile(<<"Z.py">>,
         << Import(<< [name |-> "P.Z", asname |-> "pz"] >>),
            ClassDef("X", << <<"pz", "Y">> >>, <<>>) >>),
      \* Z.py with a syntax error
      [path |-> <<"Z.py">>, parses |-> FALSE, body |-> <<>>] }

\* The files rglob finds, in the order it yields them: no two on one path.
FileLists ==
    { fs \in UNION {[1..k -> SourceFiles] : k \in 0..MaxFiles} :
        \A i, j \in DOMAIN fs : i # j => fs[i].path # fs[j].path }

Projects ==
    { [is_dir |-> TRUE, files |-> fs] : fs \in FileLists }
    \cup { [is_dir |-> FALSE, files |-> <<>>] }

InitBuild ==
    /\ model = NoModel
    /\ last_error = None
    /\ ops = 0
    /\ facade_model = NoModel
    /\ calls = [t \in Threads |-> IdleCall]
    /\ loads = <<>>
    /\ build = IdleBuild
    /\ lookup = NoLookup

\* build up to the hierarchy pass: the directory check, Metamodel(project_name),
\* and the parse of every file found (a file that does not parse is skipped).
BuildBegin(project) ==
    /\ build.pc = "idle"
    /\ IF ~project.is_dir
       THEN /\ build' = [pc |-> "done", outcome |-> "SourceNotFoundError",
                         project |-> project, parsed_files |-> <<>>, next |-> 1,
                         created |-> {}, base_classes |-> [e \in Elems |-> <<>>],
                         raised_on |-> <<>>, trace |-> <<>>, contexts |-> <<>>]
            /\ UNCHANGED model
       ELSE LET Parses(f) == f.parses
            IN  /\ build' = [pc |-> "hierarchy", outcome |-> None,
                             project |-> project,
                             parsed_files |-> SelectSeq(project.files, Parses),
                             next |-> 1, created |-> {"r"},
                             base_classes |-> [e \in Elems |-> <<>>],
                             raised_on |-> <<>>, trace |-> <<>>, contexts |-> <<>>]
                /\ model' = NewMetamodel("r")
    /\ UNCHANGED <<last_error, ops, facade_model, calls, loads, lookup>>

\* The hierarchy visitor on the module unit _ensure_module_structure returned.
VisitPlaced(placed, tree) == HierarchyVisit(placed.st, placed.unit, tree)

\* The state after the hierarchy pass has handled one file; an exception ends
\* build.
AfterHierarchy(st) ==
    /\ model' = st.m
    /\ build' = [build EXCEPT
          !.created = st.created,
          !.base_classes = st.base_classes,
          !.next = @ + 1,
          !.pc = IF st.raised # None THEN "done" ELSE @,
          !.outcome = st.raised]

\* One pass of the loop of the hierarchy pass: _ensure_module_structure and
\* the hierarchy visitor on the next file; after the last file, on to the
\* relationship pass.
HierarchyFile ==
    /\ build.pc = "hierarchy"
    /\ IF build.next > Len(build.parsed_files)
       THEN /\ build' = [build EXCEPT !.pc = "relationship", !.next = 1]
            /\ UNCHANGED model
       ELSE LET py_file == build.parsed_files[build.next]
                st0 == [m |-> model, created |-> build.created,
                        base_classes |-> build.base_classes, raised |-> None]
            IN  AfterHierarchy(
                    VisitPlaced(EnsureModuleStructure(st0, py_file.path), py_file.body))
    /\ UNCHANGED <<last_error, ops, facade_model, calls, loads, lookup>>

\* The state after the relationship pass has handled one file; an exception
\* ends build.
AfterRelationships(v) ==
    /\ model' = v.m
    /\ build' = [build EXCEPT
          !.next = @ + 1,
          !.trace = v.trace,
          !.contexts = v.contexts,
          !.raised_on = v.raised_on,
          !.pc = IF v.raised # None THEN "done" ELSE @,
          !.outcome = v.raised]

\* One pass of the loop of the relationship pass; after the last file, build
\* returns the model.
RelationshipFile ==
    /\ build.pc = "relationship"
    /\ IF build.next > Len(build.parsed_files)
       THEN /\ build' = [build EXCEPT !.pc = "done", !.outcome = "returned"]
            /\ UNCHANGED model
       ELSE LET py_file == build.parsed_files[build.next]
                project_name == Name(model.root_package)
                relative_module_fqn == PathToFqn(py_file.path)
                absolute_module_fqn ==
                    IF relative_module_fqn # ""
                    THEN project_name \o "." \o relative_module_fqn
                    ELSE project_name
                module_unit == GetElementByFqn(model, absolute_module_fqn)
            IN  IF module_unit = None
                THEN /\ build' = [build EXCEPT !.next = @ + 1]
                     /\ UNCHANGED model
                ELSE AfterRelationships(
                         VisitModule(model, build.base_classes, module_unit,
                                     py_file.body, build.trace, build.contexts))
    /\ UNCHANGED <<last_error, ops, facade_model, calls, loads, lookup>>

NextBuild ==
    \/ \E project \in Projects : BuildBegin(project)
    \/ HierarchyFile
    \/ RelationshipFile

SpecBuild == InitBuild /\ [][NextBuild]_vars

(***************************************************************************)
(* Properties of the query engine.                                         *)
(***************************************************************************)
\* A call on a loaded model that has run to its end.  Its node and edge sets
\* are the lists execute_query hands to ViewState.
Completed(f) == f.pc = "done" /\ f.outcome # "ModelStateError"

\* C1: depth monotonicity: the node set and the edge set computed at depth d
\* are subsets of those computed at depth d+1, for the same model, roots and
\* filters.
C1_DepthMonotone ==
    \A t \in Threads :
        Completed(calls[t]) =>
            LET deeper == ExecuteQuery(facade_model,
                              [calls[t].query EXCEPT !.depth = @ + 1])
            IN  /\ NodeSet(calls[t]) \subseteq NodeSet(deeper)
                /\ EdgeSet(calls[t]) \subseteq EdgeSet(deeper)

\* The registry keys reached from key k through the children of the packages
\* and modules registered on the way (children of classifiers are not
\* followed), as a least fixed point.
RECURSIVE ContainerClosure(_, _)
ContainerClosure(m, S) ==
    LET containers == {j \in S \cap RegKeys(m) :
                          Kind(m.registry[j]) \in {"PackageUnit", "ModuleUnit"}}
        step == S \cup UNION
            { {Fqn(m, m.children[m.registry[k]][i]) :
                   i \in 1..Len(m.children[m.registry[k]])} : k \in containers }
    IN  IF step = S THEN S ELSE ContainerClosure(m, step)

SingleRootDepth0(f) ==
    /\ Completed(f)
    /\ f.query.depth = 0
    /\ Len(f.query.root_fqns) = 1
    /\ f.query.root_fqns[1] \in RegKeys(facade_model)

C3_NoDanglingEdge ==
    \A t \in Threads :
        Completed(calls[t]) =>
            \A e \in EdgeSet(calls[t]) :
                /\ e.source_fqn \in NodeSet(calls[t])
                /\ e.target_fqn \in NodeSet(calls[t])

\* The kinds some rule of the query excludes.
ExcludedKinds(query) ==
    UNION { query.filter_rules[i].exclude_types :
              i \in {j \in DOMAIN query.filter_rules :
                        "exclude_types" \in DOMAIN query.filter_rules[j]} }

\* The FQNs reachable from the roots by paths of structural edges (parent to
\* child, any container) and relational edges of a kind other than K, taken
\* in either direction.
RECURSIVE ReachAvoiding(_, _, _)
ReachAvoiding(m, S, K) ==
    LET structural ==
            {Fqn(m, c) : c \in {d \in Elems :
                m.parent[d] # None /\ Fqn(m, m.parent[d]) \in S}}
        relational ==
            {m.rels[i].target_fqn : i \in {j \in DOMAIN m.rels :
                m.rels[j].type # K /\ m.rels[j].source_fqn \in S}}
            \cup
            {m.rels[i].source_fqn : i \in {j \in DOMAIN m.rels :
                m.rels[j].type # K /\ m.rels[j].target_fqn \in S}}
        step == S \cup structural \cup relational
    IN  IF step = S THEN S ELSE ReachAvoiding(m, step, K)

\* C4: filter correctness: with a rule excluding kind K the result has no
\* edge of kind K, and every node of the result is reachable from the roots
\* without any K-kind relational edge.
C4_FilterCorrect ==
    \A t \in Threads :
        Completed(calls[t]) =>
            \A K \in ExcludedKinds(calls[t].query) :
                /\ \A e \in EdgeSet(calls[t]) : e.relationship_type # K
                /\ NodeSet(calls[t]) \subseteq
                     ReachAvoiding(facade_model,
                        {calls[t].query.root_fqns[i] :
                            i \in DOMAIN calls[t].query.root_fqns}, K)

\* C4 witness: a query excluding DEPENDENCY has ended on a model where a
\* DEPENDENCY relationship touches a node of the result and leads to an
\* element that the result leaves out.
C4_Witness ==
    /\ Completed(calls[1])
    /\ calls[1].query.depth >= 1
    /\ "DEPENDENCY" \in ExcludedKinds(calls[1].query)
    /\ \E i \in DOMAIN facade_model.rels :
          /\ facade_model.rels[i].type = "DEPENDENCY"
          /\ facade_model.rels[i].source_fqn \in NodeSet(calls[1])
          /\ facade_model.rels[i].target_fqn \in RegKeys(facade_model)
          /\ facade_model.rels[i].target_fqn \notin NodeSet(calls[1])

\* C5: termination: every call that enters the traversal loop empties its
\* queue and ends.
C5_Terminates == (calls[1].pc = "loop") ~> (calls[1].pc = "done")

\* C5 witness: a call has ended on a model whose index holds a cycle, having
\* explored the relationships of both ends of it.
C5_Witness ==
    /\ Completed(calls[1])
    /\ calls[1].query.depth >= 2
    /\ \E i, j \in DOMAIN facade_model.rels :
          /\ i # j
          /\ facade_model.rels[i].source_fqn = facade_model.rels[j].target_fqn
          /\ facade_model.rels[i].target_fqn = facade_model.rels[j].source_fqn
          /\ {facade_model.rels[i].source_fqn, facade_model.rels[i].target_fqn}
                \subseteq NodeSet(calls[1])
          /\ Cardinality(EdgeSet(calls[1])) >= 2

\* C15: full substructure: if an element is a node of the result, so is
\* every element owned beneath it in the element tree, whatever the kind of
\* the container.
C15_FullSubstructure ==
    \A t \in Threads :
        Completed(calls[t]) =>
            \A e \in Elems :
                ( /\ facade_model.parent[e] # None
                  /\ Fqn(facade_model, facade_model.parent[e]) \in NodeSet(calls[t]) )
                => Fqn(facade_model, e) \in NodeSet(calls[t])

\* The FQNs owned beneath those of S in the element tree, S included.
RECURSIVE StructuralClosure(_, _)
StructuralClosure(m, S) ==
    LET step == S \cup {Fqn(m, c) : c \in {d \in Elems :
                    m.parent[d] # None /\ Fqn(m, m.parent[d]) \in S}}
    IN  IF step = S THEN S ELSE StructuralClosure(m, step)

\* The FQNs reachable from S by structural edges and at most d relational
\* edges, in either direction, of a kind no rule of the query excludes.
RECURSIVE ReachWithin(_, _, _, _)
ReachWithin(m, S, query, d) ==
    LET base == StructuralClosure(m, S)
        open == {j \in DOMAIN m.rels : m.rels[j].type \notin ExcludedKinds(query)}
        next == {m.rels[j].target_fqn : j \in {i \in open : m.rels[i].source_fqn \in base}}
                \cup
                {m.rels[j].source_fqn : j \in {i \in open : m.rels[i].target_fqn \in base}}
    IN  IF d = 0 THEN base ELSE ReachWithin(m, base \cup next, query, d - 1)

\* C16: depth limit: every node of the result is reachable from a root by
\* structural edges and at most query.depth unfiltered relational edges, and
\* no queue entry ever carries a depth greater than query.depth.
C16_DepthLimit ==
    \A t \in Threads :
        /\ calls[t].pc # "idle" =>
              \A i \in DOMAIN calls[t].queue :
                  calls[t].queue[i][2] <= calls[t].query.depth
        /\ Completed(calls[t]) =>
              NodeSet(calls[t]) \subseteq
                  ReachWithin(facade_model,
                      {calls[t].query.root_fqns[i] : i \in DOMAIN calls[t].query.root_fqns},
                      calls[t].query, calls[t].query.depth)

\* C16 witness: a query of depth 1 has ended, and an unfiltered relationship
\* leads from a node of the result to a registered element outside it.
C16_Witness ==
    /\ Completed(calls[1])
    /\ calls[1].query.depth = 1
    /\ calls[1].query.filter_rules = <<>>
    /\ EdgeSet(calls[1]) # {}
    /\ \E i \in DOMAIN facade_model.rels :
          /\ facade_model.rels[i].source_fqn \in NodeSet(calls[1])
          /\ facade_model.rels[i].target_fqn \in RegKeys(facade_model) \ NodeSet(calls[1])

C18_ReturnsViewState ==
    \A t \in Threads :
        Completed(calls[t]) => calls[t].outcome = "returned"

\* The FQNs of registered elements whose relationships a call has explored:
\* those taken from the queue at a depth below the query's depth.
Explored(f) ==
    {d[1] : d \in {q \in f.dequeued :
                      q[1] \in RegKeys(facade_model) /\ q[2] < f.query.depth}}

\* C23: edge de-duplication keeps direction and kind: the edge list holds the
\* (source, target, kind) triple of every explored, unfiltered relationship
\* exactly once, whatever the number of records of it in the index and the
\* number of endpoints it is met from, and nothing else.
C23_EdgeDedup ==
    \A t \in Threads :
        Completed(calls[t]) =>
            LET f == calls[t]
                m == facade_model
                met == {i \in DOMAIN m.rels :
                          /\ m.rels[i].type \notin ExcludedKinds(f.query)
                          /\ \/ m.rels[i].source_fqn \in Explored(f)
                             \/ m.rels[i].target_fqn \in Explored(f)}
            IN  /\ EdgeSet(f) = { [source_fqn |-> m.rels[i].source_fqn,
                                   target_fqn |-> m.rels[i].target_fqn,
                                   relationship_type |-> m.rels[i].type] : i \in met }
                /\ Len(f.final_edges) = Cardinality(EdgeSet(f))

\* C23 witness: a call has ended on an index that holds one record twice and
\* a record between the same pair in the other direction with another kind;
\* both ends of the pair were explored and both edges are in the result.
C23_Witness ==
    /\ Completed(calls[1])
    /\ \E i, j, k \in DOMAIN facade_model.rels :
          /\ i # j
          /\ facade_model.rels[i] = facade_model.rels[j]
          /\ facade_model.rels[k].source_fqn = facade_model.rels[i].target_fqn
          /\ facade_model.rels[k].target_fqn = facade_model.rels[i].source_fqn
          /\ facade_model.rels[k].type # facade_model.rels[i].type
          /\ {facade_model.rels[i].source_fqn, facade_model.rels[i].target_fqn}
                \subseteq Explored(calls[1])
          /\ Len(calls[1].final_edges) = 2

\* C24: each FQN enters the traversal queue at most once: no FQN is in the
\* queue twice, none is in the queue after it was taken from it, and none is
\* taken from it more than once.
C24_EnqueuedOnce ==
    \A t \in Threads :
        calls[t].pc # "idle" =>
            LET f == calls[t]
            IN  /\ f.dequeued_again = {}
                /\ \A i, j \in DOMAIN f.queue : i # j => f.queue[i][1] # f.queue[j][1]
                /\ \A i \in DOMAIN f.queue : \A d \in f.dequeued : d[1] # f.queue[i][1]

\* The least number of unfiltered relational edges on a path from one of
\* the roots to fqn over structural and relational edges.
LeastDepth(m, roots, query, fqn) ==
    CHOOSE k \in 0..(query.depth + 1) :
        /\ k <= query.depth => fqn \in ReachWithin(m, roots, query, k)
        /\ \A j \in 0..(k - 1) : fqn \notin ReachWithin(m, roots, query, j)

\* C27: structural edges cost zero depth: an element is taken from the queue
\* at the least number of unfiltered relational edges that lead to it from a
\* root, and every unfiltered relationship touching an element that lies
\* within fewer than query.depth relational edges of a root is in the result.
\* Paths start at the roots that are registered elements.
C27_ZeroCostStructural ==
    \A t \in Threads :
        Completed(calls[t]) =>
            LET f == calls[t]
                m == facade_model
                roots == {f.query.root_fqns[i] : i \in DOMAIN f.query.root_fqns}
                            \cap RegKeys(m)
                near == IF f.query.depth = 0 THEN {}
                        ELSE ReachWithin(m, roots, f.query, f.query.depth - 1)
                                \cap RegKeys(m)
            IN  /\ \A d \in f.dequeued :
                      d[1] \in RegKeys(m) => d[2] = LeastDepth(m, roots, f.query, d[1])
                /\ \A i \in DOMAIN m.rels :
                      ( /\ m.rels[i].type \notin ExcludedKinds(f.query)
                        /\ \/ m.rels[i].source_fqn \in near
                           \/ m.rels[i].target_fqn \in near )
                      => [source_fqn |-> m.rels[i].source_fqn,
                          target_fqn |-> m.rels[i].target_fqn,
                          relationship_type |-> m.rels[i].type] \in EdgeSet(f)

\* C28: adding a filter never enlarges the result: with one more exclude
\* rule the node set and the edge set are subsets of those without it.
C28_FilterMonotone ==
    \A t \in Threads :
        Completed(calls[t]) =>
            \A K \in RelationshipType :
                LET more == ExecuteQuery(facade_model,
                               [calls[t].query EXCEPT !.filter_rules =
                                   Append(@, [exclude_types |-> {K}])])
                IN  /\ NodeSet(more) \subseteq NodeSet(calls[t])
                    /\ EdgeSet(more) \subseteq EdgeSet(calls[t])

\* C29: the post-pass adds nothing: when the traversal loop has ended, every
\* registered endpoint of every recorded edge is already a node.
C29_PostPassAddsNothing ==
    \A t \in Threads :
        calls[t].pc = "post" =>
            LET f == calls[t]
                all_edge_fqns == {e[1] : e \in f.edges} \cup {e[2] : e \in f.edges}
            IN  /\ all_edge_fqns \cap RegKeys(facade_model) \subseteq DictKeys(f.nodes)
                /\ AddEndpoints(facade_model, all_edge_fqns, f.nodes) = f.nodes

\* C29 witness: the loop of a query of depth 1 or more has ended with several
\* edges recorded, one of them with an unregistered endpoint.
C29_Witness ==
    /\ calls[1].pc = "post"
    /\ Cardinality(calls[1].edges) >= 2
    /\ \E e \in calls[1].edges : e[2] = Ghost
    /\ \E e \in calls[1].edges : e[2] \in RegKeys(facade_model) /\ e[2] # calls[1].query.root_fqns[1]

(***************************************************************************)
(* Properties of the facade.                                               *)
(***************************************************************************)
\* The model the last successful build of a load log returned.
RECURSIVE LastOk(_)
LastOk(log) ==
    IF log = <<>> THEN NoModel
    ELSE IF log[Len(log)].raised = None THEN log[Len(log)].value
    ELSE LastOk(SubSeq(log, 1, Len(log) - 1))

SameResult(f, g) ==
    /\ NodeSet(f) = NodeSet(g)
    /\ EdgeSet(f) = EdgeSet(g)
    /\ f.outcome = g.outcome

\* C6: reload atomicity: a call computes its whole result from the model
\* that was current when it started, whatever load_project does meanwhile.
C6_ReloadAtomic ==
    \A t \in Threads :
        Completed(calls[t]) =>
            SameResult(calls[t], ExecuteQuery(calls[t].start_model, calls[t].query))

\* C7: concurrent queries: the loaded model is never modified, and every
\* call ends with the node set and edge set it computes when run alone.
C7_ConcurrentQueries ==
    /\ facade_model = LastOk(loads)
    /\ facade_model \in ConcurrentModels
    /\ \A t \in Threads :
          calls[t].pc = "done" =>
              SameResult(calls[t], ExecuteQuery(facade_model, calls[t].query))

\* C7 witness: two calls with different queries have both ended after
\* running interleaved, each with edges in its result.
C7_Witness ==
    /\ \A t \in Threads :
          /\ Completed(calls[t])
          /\ calls[t].overlapped
          /\ EdgeSet(calls[t]) # {}
    /\ calls[1].query # calls[2].query
    /\ NodeSet(calls[1]) # NodeSet(calls[2])

\* C8: query before load: while no load_project has succeeded, every
\* execute_query call fails with ModelStateError at once, computes nothing,
\* and leaves the facade not loaded.
C8_QueryBeforeLoad ==
    [][ \A t \in Threads :
          ( /\ calls[t].pc = "idle"
            /\ calls'[t].pc # "idle"
            /\ \A i \in DOMAIN loads : loads[i].raised # None )
          => /\ calls'[t].pc = "done"
             /\ calls'[t].outcome = "ModelStateError"
             /\ calls'[t].final_nodes = <<>>
             /\ facade_model = NoModel
             /\ facade_model' = NoModel ]_vars

\* C8 witness: a query made after a failed load, and before any successful
\* one, has been rejected.
C8_Witness ==
    /\ calls[1].pc = "done"
    /\ calls[1].outcome = "ModelStateError"
    /\ calls[1].begun_at = 1
    /\ loads[1].raised = "SourceNotFoundError"

\* C9: a failed load keeps the previous state: the facade's model is always
\* the one the last successful build returned; a call begun on a facade never
\* loaded is rejected with ModelStateError, and a call begun after a failed
\* load on a loaded facade is answered from the model loaded before it.
C9_FailedLoadKeepsModel ==
    /\ facade_model = LastOk(loads)
    /\ \A t \in Threads :
          calls[t].pc # "idle" =>
              LET before == LastOk(SubSeq(loads, 1, calls[t].begun_at))
              IN  /\ calls[t].start_model = before
                  /\ before = NoModel =>
                        calls[t].pc = "done" /\ calls[t].outcome = "ModelStateError"
                  /\ (before # NoModel /\ calls[t].pc = "done" /\ ~calls[t].swapped) =>
                        SameResult(calls[t], ExecuteQuery(before, calls[t].query))

\* C9 witness: a successful load, then a failed one, then a query that is
\* answered from the model of the first.
C9_Witness ==
    /\ Completed(calls[1])
    /\ calls[1].begun_at = 2
    /\ loads[1].raised = None
    /\ loads[2].raised = "SourceNotFoundError"
    /\ NodeSet(calls[1]) # {}
    /\ facade_model = loads[1].value

(***************************************************************************)
(* Properties of the element tree and registry.                            *)
(***************************************************************************)
\* C10: registry bijectivity: after any sequence of add_child and
\* register_element calls every registry key is the FQN computed from the
\* tree position of the element it maps to, and no two distinct registered
\* elements share an FQN.
C10_RegistryBijective ==
    /\ \A k \in RegKeys(model) : k = Fqn(model, model.registry[k])
    /\ \A k1, k2 \in RegKeys(model) :
          model.registry[k1] # model.registry[k2] =>
              Fqn(model, model.registry[k1]) # Fqn(model, model.registry[k2])

\* C11: the ownership structure is a tree: every element is held in the
\* children map of at most one element, that element is the one its parent
\* link points to, and no element is its own ancestor.
C11_OwnershipTree ==
    /\ \A e \in Elems :
          Cardinality({p \in Elems :
              \E i \in DOMAIN model.children[p] : model.children[p][i] = e}) <= 1
    /\ \A p \in Elems : \A i \in DOMAIN model.children[p] :
          model.parent[model.children[p][i]] = p
    /\ \A e \in Elems : Fqn(model, e) # RecursionError

C13_InsertionOnce ==
    /\ [](\A e \in Elems :
            Fqn(model, e) \in RegKeys(model) =>
                /\ RegisterElementRaises(model, e) = "KeyError"
                /\ RegisterElement(model, e) = model)
    /\ [][ /\ last_error' = "KeyError" => model' = model
           /\ \A k \in RegKeys(model) :
                 /\ k \in RegKeys(model')
                 /\ model'.registry[k] = model.registry[k] ]_vars

\* C13 witness: a registration has been rejected while another element
\* with the FQN of a registered one exists.
C13_Witness ==
    /\ last_error = "KeyError"
    /\ \E e \in Elems :
          /\ Fqn(model, e) \in RegKeys(model)
          /\ model.registry[Fqn(model, e)] # e

\* C14: get_relationships_for_fqn returns, in insertion order and each index
\* entry at most once, exactly the records whose source is the FQN
\* (outgoing), whose target is the FQN (incoming), or either (both); the
\* empty list when none matches.
C14_GetRelationships ==
    lookup.fqn # None =>
        LET Matches(rel) ==
                \/ lookup.direction \in {"outgoing", "both"} /\ rel.source_fqn = lookup.fqn
                \/ lookup.direction \in {"incoming", "both"} /\ rel.target_fqn = lookup.fqn
        IN  lookup.result = SelectSeq(model.rels, Matches)

\* C14 witness: a lookup in both directions has returned a self-loop and a
\* record that occurs twice in the index.
C14_Witness ==
    /\ lookup.direction = "both"
    /\ \E i \in DOMAIN lookup.result :
          lookup.result[i].source_fqn = lookup.result[i].target_fqn
    /\ \E i, j \in DOMAIN lookup.result :
          i # j /\ lookup.result[i] = lookup.result[j]
    /\ Len(lookup.result) < Len(model.rels)

(***************************************************************************)
(* Properties of the construction.                                         *)
(***************************************************************************)
\* C19: duplicate-name failures never come from user input: for a valid
\* root directory and parseable source files, build never ends with the
\* duplicate-FQN failure (KeyError) or the duplicate-sibling failure
\* (ValueError).
C19_NoDuplicateFailure ==
    build.pc = "done" => build.outcome \notin {"KeyError", "ValueError"}

\* C20: unresolved reference: in the relationship pass a base-type token,
\* annotation or called constructor name that resolves to no registered FQN
\* appends no relationship to the index and raises no error: the index holds
\* one record for each resolution that succeeded and none besides, and the
\* pass never fails on a parameter whose annotation did not resolve.
C20_UnresolvedReference ==
    (build.pc # "idle" /\ build.project.is_dir) =>
        /\ Len(model.rels) =
              Cardinality({i \in DOMAIN build.trace :
                              build.trace[i].resolved_fqn # None})
        /\ build.outcome = "AttributeError" => build.raised_on.annotation = <<>>

\* The module FQN the builder gives a source file, and the parsed file a
\* module FQN belongs to.
ModuleFqnOf(py_file) ==
    IF PathToFqn(py_file.path) # ""
    THEN Name(model.root_package) \o "." \o PathToFqn(py_file.path)
    ELSE Name(model.root_package)

FileOfModule(module_fqn) ==
    build.parsed_files[CHOOSE i \in DOMAIN build.parsed_files :
                          ModuleFqnOf(build.parsed_files[i]) = module_fqn]

\* C21: composition name heuristic: for a constructor parameter other than
\* the receiver that no resolving annotation handled, the relationship pass
\* emits exactly one COMPOSITION from the owning classifier to each
\* registered Classifier whose local name is the PascalCase form of the
\* parameter name.
C21_CompositionHeuristic ==
    (build.pc # "idle" /\ build.project.is_dir /\ build.raised_on # <<>>) =>
        \A fqn \in RegKeys(model) :
            ( /\ Kind(model.registry[fqn]) = "ClassifierUnit"
              /\ Name(model.registry[fqn]) = build.raised_on.inferred_class_name )
            => Cardinality({i \in DOMAIN model.rels :
                               model.rels[i] = Relationship(build.raised_on.owner,
                                                            fqn, "COMPOSITION")}) = 1

\* The candidates of a token in the order of priority of the resolution:
\* the alias of the whole token, the alias of its first segment followed by
\* the rest, the token under the project root, the token under the current
\* module.
Candidates(event) ==
    LET root == Name(model.root_package)
        name == event.name
        text == Join(name)
    IN  << IF text \in DOMAIN event.imports
           THEN root \o "." \o event.imports[text] ELSE None,
           IF Len(name) > 1 /\ name[1] \in DOMAIN event.imports
           THEN root \o "." \o event.imports[name[1]] \o "." \o Join(Tail(name))
           ELSE None,
           root \o "." \o text,
           event.file \o "." \o text >>

FirstRegistered(candidates) ==
    LET hits == {i \in DOMAIN candidates : candidates[i] \in RegKeys(model)}
    IN  IF hits = {} THEN None
        ELSE candidates[CHOOSE i \in hits : \A j \in hits : i <= j]

\* C22: name resolution priority: every token resolved in the relationship
\* pass resolves to the first registered FQN among its four candidates, the
\* token under the project root being tried for every token, dotted or not,
\* before the token under the current module; to nothing when none of them
\* is registered.
C22_ResolutionPriority ==
    (build.pc # "idle" /\ build.project.is_dir) =>
        \A i \in DOMAIN build.trace :
            build.trace[i].resolved_fqn = FirstRegistered(Candidates(build.trace[i]))

\* The type definitions of a list of statements: each with the names of the
\* type definitions enclosing it, outermost first.
RECURSIVE TypeDefinitions(_, _)
TypeDefinitions(stmts, enclosing) ==
    IF stmts = <<>> THEN {}
    ELSE LET node == Head(stmts)
             here == IF node.node = "ClassDef"
                     THEN {[name |-> node.name, enclosing |-> enclosing]}
                          \cup TypeDefinitions(node.body, Append(enclosing, node.name))
                     ELSE {}
         IN  here \cup TypeDefinitions(Tail(stmts), enclosing)

\* C25: nested type definitions: after the hierarchy pass a type definition
\* nested in another is registered under the enclosing Classifier's FQN and
\* is a child of that Classifier; a top-level one is registered under the
\* module's FQN and is a child of the module, and the module has no other
\* children.
C25_NestedUnderEnclosing ==
    build.pc = "relationship" =>
        \A i \in DOMAIN build.parsed_files :
            LET module_fqn == ModuleFqnOf(build.parsed_files[i])
                defs == TypeDefinitions(build.parsed_files[i].body, <<>>)
                module_unit == model.registry[module_fqn]
            IN  /\ \A d \in defs :
                      LET owner_fqn == IF d.enclosing = <<>> THEN module_fqn
                                       ELSE module_fqn \o "." \o Join(d.enclosing)
                          fqn == owner_fqn \o "." \o d.name
                      IN  /\ fqn \in RegKeys(model)
                          /\ owner_fqn \in RegKeys(model)
                          /\ model.parent[model.registry[fqn]] = model.registry[owner_fqn]
                /\ \A k \in DOMAIN model.children[module_unit] :
                      Kind(model.children[module_unit][k]) = "ClassifierUnit" =>
                          \E d \in defs :
                              /\ d.enclosing = <<>>
                              /\ d.name = Name(model.children[module_unit][k])

\* The alias names the import statements of a list of statements bind,
\* wherever the statements stand.
RECURSIVE ImportKeys(_)
ImportKeys(stmts) ==
    IF stmts = <<>> THEN {}
    ELSE LET node == Head(stmts)
             here == IF node.node \in {"Import", "ImportFrom"}
                     THEN {IF node.names[k].asname # None
                           THEN node.names[k].asname ELSE node.names[k].name :
                              k \in DOMAIN node.names}
                     ELSE IF node.node \in {"ClassDef", "FunctionDef"}
                     THEN ImportKeys(node.body)
                     ELSE {}
         IN  here \cup ImportKeys(Tail(stmts))

\* C26: the alias table is complete before names are resolved: whenever a
\* name of a file is resolved, the table holds an entry for every import
\* statement of that file, wherever the import stands, and no entry of
\* another file.
C26_AliasTableComplete ==
    (build.pc # "idle" /\ build.project.is_dir) =>
        \A i \in DOMAIN build.trace :
            DOMAIN build.trace[i].imports =
                ImportKeys(FileOfModule(build.trace[i].file).body)

\* C30: the current classifier is the innermost enclosing type definition:
\* whenever a method definition or an assignment inside the body of a type
\* definition is visited, also after a nested type definition in the same
\* body, the current classifier is the innermost type definition enclosing
\* that statement.
C30_InnermostContext ==
    (build.pc # "idle" /\ build.project.is_dir) =>
        \A i \in DOMAIN build.contexts :
            build.contexts[i].current_classifier = build.contexts[i].innermost

====
